---- MODULE Spec2Model ----
(***************************************************************************)
(* A model of dicomfmt (main.go): the text-file classifier, the recursive  *)
(* series scan, and the placement loop of main with its move-mode cleanup. *)
(*                                                                         *)
(* A path is a sequence of name components relative to the working         *)
(* directory; the string "a//b" is <<"a", "", "b">>, the cleaned "." is    *)
(* the empty sequence, and the empty string is <<"">>.                      *)
(***************************************************************************)
EXTENDS Integers, Sequences, FiniteSets, TLC

VARIABLES
    args,       \* flag.Args(): the command line, a sequence of paths
    dirs,       \* the file system: the set of directories (cleaned paths)
    files,      \* the file system: cleaned path -> file contents
    noperm,     \* directories that can neither be listed nor removed
    files0,     \* the file system's files when the run started
    run,        \* 1: the run; 2: a second run of the same command line
    pc,         \* where main is
    si,         \* index into srcDirs of the source root being processed
    series,     \* the SeriesTable of the source root being processed
    todo,       \* keys of series the range loop has not yet visited
    cur,        \* the key the range loop is at (a one-element sequence)
    fi,         \* index into series[cur].Files
    movedSome,  \* main's movedSome
    out,        \* the lines printed to standard output
    placed,     \* the relocations this run performed: <<source, destination>>
    target,     \* SpecClassify: the file isTextFile is called on
    reader,     \* SpecClassify: isTextFile's reader offset and loop counter
    result      \* SpecClassify, SpecScan: what the function returned

vars == <<args, dirs, files, noperm, files0, run, pc, si, series, todo, cur,
          fi, movedSome, out, placed, target, reader, result>>

-----------------------------------------------------------------------------
(* Bounds of the model. *)

\* The most files a tree of the placement model holds.
MaxFiles == 2
\* The most files a tree of the scan model holds.
MaxScanFiles == 3
\* The most bytes that follow the printable prefix of a classified file.
MaxTail == 2

-----------------------------------------------------------------------------
(* Paths: path/filepath. *)

Last(s) == s[Len(s)]
Front(s) == SubSeq(s, 1, Len(s) - 1)

RECURSIVE CleanFrom(_, _)
CleanFrom(acc, rest) ==
    IF rest = <<>> THEN acc
    ELSE LET c == Head(rest) IN
         IF c \in {"", "."} THEN CleanFrom(acc, Tail(rest))
         ELSE IF c = ".."
              THEN IF acc # <<>> /\ Last(acc) # ".."
                   THEN CleanFrom(Front(acc), Tail(rest))
                   ELSE CleanFrom(Append(acc, ".."), Tail(rest))
              ELSE CleanFrom(Append(acc, c), Tail(rest))

\* filepath.Clean on a relative path: drops empty and "." components and
\* resolves "..".
Clean(p) == CleanFrom(<<>>, p)

\* filepath.Dir of a cleaned path ("." for a path of one component).
Dir(p) == IF p = <<>> THEN <<>> ELSE Front(p)

\* path.Base of a cleaned, non-empty path.
Base(p) == Last(p)

\* Every name in byte order, the order ioutil.ReadDir lists a directory in.
NameOrder == <<"A", "B", "CT", "Doe", "Roe", "f", "g", "out", "r", "s">>

-----------------------------------------------------------------------------
(* The classifier. *)

\* The number of runes isTextFile looks at.
MaxRunes == 128

\* The rune utf8 decoding reports for an invalid or incomplete sequence.
RuneError == 65533

IsCont(b) == b >= 128 /\ b <= 191

\* bufio.Reader.ReadRune at offset pos (from 1) of bytes: <<rune, size>>.
\* One byte below 0x80 is itself; a 0xC2..0xDF lead with a continuation byte
\* is a two-byte rune; anything else is RuneError of size 1.
ReadRune(bytes, pos) ==
    LET b == bytes[pos] IN
    IF b < 128 THEN <<b, 1>>
    ELSE IF b >= 194 /\ b <= 223 /\ pos < Len(bytes) /\ IsCont(bytes[pos + 1])
         THEN <<(b - 192) * 64 + (bytes[pos + 1] - 128), 2>>
         ELSE <<RuneError, 1>>

\* unicode.IsPrint on the runes up to U+00FF and on U+FFFD: letters, marks,
\* numbers, punctuation, symbols and the ASCII space.
IsPrint(r) ==
    \/ r >= 32 /\ r <= 126
    \/ r >= 161 /\ r <= 255 /\ r # 173
    \/ r = RuneError

\* RuneStep with the loop bound off by one: 129 runes are looked at.
RuneStepOneMore(bytes, pos, i) ==
    IF i > MaxRunes THEN [done |-> TRUE, ret |-> TRUE, pos |-> pos]
    ELSE IF pos > Len(bytes)
         THEN [done |-> TRUE, ret |-> TRUE, pos |-> pos]
    ELSE LET rr == ReadRune(bytes, pos) IN
         IF ~IsPrint(rr[1]) /\ rr[1] \notin {10, 9, 13}
         THEN [done |-> TRUE, ret |-> FALSE, pos |-> pos + rr[2]]
         ELSE [done |-> FALSE, ret |-> TRUE, pos |-> pos + rr[2]]

\* Lines 60-73: iteration i of the loop with the reader at offset pos:
\* whether isTextFile returns, what it returns, and the reader's new offset.
RuneStep(bytes, pos, i) ==
    IF i >= MaxRunes THEN [done |-> TRUE, ret |-> TRUE, pos |-> pos]
    ELSE IF pos > Len(bytes)             \* ReadRune's err: io.EOF or a read error
         THEN [done |-> TRUE, ret |-> TRUE, pos |-> pos]
    ELSE LET rr == ReadRune(bytes, pos) IN
         IF ~IsPrint(rr[1]) /\ rr[1] \notin {10, 9, 13}
         THEN [done |-> TRUE, ret |-> FALSE, pos |-> pos + rr[2]]
         ELSE [done |-> FALSE, ret |-> TRUE, pos |-> pos + rr[2]]

RECURSIVE RuneLoop(_, _, _)
RuneLoop(bytes, pos, i) ==
    LET s == RuneStep(bytes, pos, i) IN
    IF s.done THEN s.ret ELSE RuneLoop(bytes, s.pos, i + 1)

\* isTextFile on a file's contents; readable is whether os.Open succeeds and
\* bytes what the reader delivers before it reports an error.
isTextFile(f) ==
    IF ~f.readable THEN FALSE ELSE RuneLoop(f.bytes, 1, 0)

-----------------------------------------------------------------------------
(* The file system. *)

IsDir(D, p) == p \in D
IsFile(F, p) == p \in DOMAIN F
Exists(D, F, p) == IsDir(D, p) \/ IsFile(F, p)

\* The names ioutil.ReadDir returns for directory p, sorted by name.
ReadDir(D, F, p) ==
    LET Here(n) == Exists(D, F, Append(p, n)) IN SelectSeq(NameOrder, Here)

\* Whether ioutil.ReadDir fails on p.
ReadDirFails(D, NP, p) == ~IsDir(D, p) \/ p \in NP

Prefixes(p) == {SubSeq(p, 1, k) : k \in 1..Len(p)}

\* Whether os.MkdirAll(p) is refused because a component of p is a file.
MkdirAllCollides(F, p) == \E q \in Prefixes(p) : IsFile(F, Clean(q))

\* The directories after a successful os.MkdirAll(p).
MkdirAll(D, p) == D \cup {Clean(q) : q \in Prefixes(p)}

-----------------------------------------------------------------------------
(* The series scan. *)

EmptyTable == [u \in {} |-> <<>>]

Put(table, u, group) == [v \in DOMAIN table \cup {u} |-> IF v = u THEN group ELSE table[v]]

\* MergeTable with the subdirectory's entry assigned over the directory's:
\* the files are kept, the metadata are the subdirectory's.
MergeTableOverwrite(table, sub) ==
    [u \in DOMAIN table \cup DOMAIN sub |->
        IF u \in DOMAIN sub
        THEN IF u \in DOMAIN table
             THEN [sub[u] EXCEPT !.Files = table[u].Files \o sub[u].Files]
             ELSE sub[u]
        ELSE table[u]]

\* Lines 114-125: merge a subdirectory's table into the directory's.
MergeTable(table, sub) ==
    [u \in DOMAIN table \cup DOMAIN sub |->
        IF u \in DOMAIN table
        THEN IF u \in DOMAIN sub
             THEN [table[u] EXCEPT !.Files = table[u].Files \o sub[u].Files]
             ELSE table[u]
        ELSE sub[u]]

\* AddFile without the PatientName lookup's error check: a file without a
\* PatientName creates the series with an empty one.
AddFileNoPatientCheck(table, filename, f) ==
    IF isTextFile(f) THEN table
    ELSE IF ~f.readable THEN table
    ELSE IF ~f.parses THEN table
    ELSE IF "SeriesInstanceUID" \notin DOMAIN f.elems THEN table
    ELSE LET newSeries == f.elems["SeriesInstanceUID"] IN
         IF newSeries = "" THEN table
         ELSE IF newSeries \in DOMAIN table
              THEN Put(table, newSeries,
                       [table[newSeries] EXCEPT !.Files = Append(@, filename)])
              ELSE IF "SeriesDescription" \notin DOMAIN f.elems THEN table
              ELSE Put(table, newSeries,
                       [PatientName |-> IF "PatientName" \in DOMAIN f.elems
                                        THEN f.elems["PatientName"] ELSE "",
                        SeriesDescription |-> f.elems["SeriesDescription"],
                        Files |-> <<filename>>])

\* Lines 127-181: one regular file of the directory.
AddFile(table, filename, f) ==
    IF isTextFile(f) THEN table
    ELSE IF ~f.readable THEN table                        \* ioutil.ReadFile
    ELSE IF ~f.parses THEN table                          \* parser.Parse
    ELSE IF "SeriesInstanceUID" \notin DOMAIN f.elems THEN table
    ELSE LET newSeries == f.elems["SeriesInstanceUID"] IN
         IF newSeries = "" THEN table
         ELSE IF newSeries \in DOMAIN table
              THEN Put(table, newSeries,
                       [table[newSeries] EXCEPT !.Files = Append(@, filename)])
              ELSE IF "PatientName" \notin DOMAIN f.elems THEN table
              ELSE IF "SeriesDescription" \notin DOMAIN f.elems THEN table
              ELSE Put(table, newSeries,
                       [PatientName |-> f.elems["PatientName"],
                        SeriesDescription |-> f.elems["SeriesDescription"],
                        Files |-> <<filename>>])

RECURSIVE SplitSeries(_, _, _, _)
RECURSIVE ScanEntries(_, _, _, _, _, _)

\* Lines 104-183: the loop over the directory's entries.
ScanEntries(D, F, NP, dir, entries, table) ==
    IF entries = <<>> THEN table
    ELSE LET filename == Clean(Append(dir, Head(entries))) IN
         IF IsDir(D, filename)
         THEN LET sub == SplitSeries(D, F, NP, filename) IN
              IF sub.err THEN ScanEntries(D, F, NP, dir, Tail(entries), table)
              ELSE ScanEntries(D, F, NP, dir, Tail(entries),
                               MergeTable(table, sub.series))
         ELSE ScanEntries(D, F, NP, dir, Tail(entries),
                          AddFile(table, filename, F[filename]))

\* SplitSeries(dir): [err, series].
SplitSeries(D, F, NP, dir) ==
    IF dir = <<"">> THEN [err |-> TRUE, series |-> EmptyTable]
    ELSE IF ReadDirFails(D, NP, Clean(dir)) THEN [err |-> TRUE, series |-> EmptyTable]
    ELSE [err |-> FALSE,
          series |-> ScanEntries(D, F, NP, dir, ReadDir(D, F, Clean(dir)), EmptyTable)]

-----------------------------------------------------------------------------
(* main: the command line. *)

\* Lines 223-231.
srcDirs == IF Len(args) = 1 THEN args ELSE Front(args)
dst == Last(args)
mv == Len(args) = 1

\* DstDir with the two names in the wrong order.
DstDirSwapped(group) == dst \o <<group.SeriesDescription, group.PatientName>>

\* Line 254: fmt.Sprintf("%s/%s/%s", dst, PatientName, SeriesDescription).
DstDir(group) == dst \o <<group.PatientName, group.SeriesDescription>>

\* Line 256: filepath.Clean(dstDir + "/" + path.Base(file)).
DstFile(group, file) == Clean(Append(DstDir(group), Base(file)))

-----------------------------------------------------------------------------
(* main: the file actions and the cleanup. *)

Without(F, p) == [q \in DOMAIN F \ {p} |-> F[q]]
With(F, p, c) == [q \in DOMAIN F \cup {p} |-> IF q = p THEN c ELSE F[q]]

\* Whether os.Rename(src, dst) is refused: dst is a directory.
moveFileFails(D, F, src, dest) == ~IsFile(F, src) \/ IsDir(D, dest)

\* The files after a successful moveFile(src, dst): dst is replaced.
moveFile(F, src, dest) == With(Without(F, src), dest, F[src])

\* Whether copyFile(src, dst) is refused: os.Open or os.Create fails.
copyFileFails(D, F, src, dest) == ~IsFile(F, src) \/ IsDir(D, dest)

\* The files after a successful copyFile(src, dst): dst is created or
\* truncated, then written.
copyFile(F, src, dest) == With(F, dest, F[src])

\* What os.Create leaves at dst when io.Copy fails.
Truncated(c) == [c EXCEPT !.bytes = <<>>]

\* removeEmpty(dir): [removed, dirs]. The working directory itself cannot
\* be removed.
removeEmpty(D, F, NP, dir) ==
    IF ReadDirFails(D, NP, dir) THEN [removed |-> FALSE, dirs |-> D]
    ELSE IF ReadDir(D, F, dir) = <<>> /\ dir # <<>>
         THEN [removed |-> TRUE, dirs |-> D \ {dir}]
         ELSE [removed |-> FALSE, dirs |-> D]

\* Lines 283-292: the directories after the cleanup that follows a move of
\* file.
Cleanup(D, F, NP, file) ==
    LET srcDir == Dir(file)
        first == removeEmpty(D, F, NP, srcDir)
    IN IF first.removed
       THEN removeEmpty(first.dirs, F, NP, Dir(srcDir)).dirs
       ELSE first.dirs

-----------------------------------------------------------------------------
(* main: the state machine. *)

group == series[cur[1]]
file == group.Files[fi]
dstDir == DstDir(group)
dstFile == DstFile(group, file)

\* Lines 233-238.
Start ==
    /\ pc = "start"
    /\ dirs' = IF Exists(dirs, files, Clean(dst)) THEN dirs ELSE MkdirAll(dirs, dst)
    /\ si' = 1
    /\ pc' = "root"
    /\ UNCHANGED <<args, files, noperm, files0, run, series, todo, cur, fi,
                   movedSome, out, placed, target, reader, result>>

\* Lines 234-237: the destination does not exist and os.MkdirAll refuses to
\* create it: log.Fatalln.
StartFails ==
    /\ pc = "start"
    /\ ~Exists(dirs, files, Clean(dst))
    /\ pc' = "fatal"
    /\ UNCHANGED <<args, dirs, files, noperm, files0, run, si, series, todo,
                   cur, fi, movedSome, out, placed, target, reader, result>>

\* Lines 241-251: a source root that does not exist or cannot be scanned.
SkipRoot ==
    /\ pc = "root"
    /\ si <= Len(srcDirs)
    /\ \/ ~Exists(dirs, files, Clean(srcDirs[si]))
       \/ /\ Exists(dirs, files, Clean(srcDirs[si]))
          /\ SplitSeries(dirs, files, noperm, srcDirs[si]).err
    /\ si' = si + 1
    /\ UNCHANGED <<args, dirs, files, noperm, files0, run, pc, series, todo,
                   cur, fi, movedSome, out, placed, target, reader, result>>

\* Lines 241-252: the scan of the next source root.
ScanRoot ==
    /\ pc = "root"
    /\ si <= Len(srcDirs)
    /\ Exists(dirs, files, Clean(srcDirs[si]))
    /\ LET r == SplitSeries(dirs, files, noperm, srcDirs[si]) IN
       /\ ~r.err
       /\ series' = r.series
       /\ todo' = DOMAIN r.series
    /\ pc' = "group"
    /\ UNCHANGED <<args, dirs, files, noperm, files0, run, si, cur, fi,
                   movedSome, out, placed, target, reader, result>>

\* Line 299: every source root was processed.
Finish ==
    /\ pc = "root"
    /\ si > Len(srcDirs)
    /\ pc' = "done"
    /\ UNCHANGED <<args, dirs, files, noperm, files0, run, si, series, todo,
                   cur, fi, movedSome, out, placed, target, reader, result>>

\* Lines 252-254: the range loop picks a series, in no defined order.
NextGroup ==
    /\ pc = "group"
    /\ \E u \in todo :
        /\ cur' = <<u>>
        /\ todo' = todo \ {u}
    /\ movedSome' = FALSE
    /\ fi' = 1
    /\ pc' = "file"
    /\ UNCHANGED <<args, dirs, files, noperm, files0, run, si, series, out,
                   placed, target, reader, result>>

\* Line 298: the range loop is over.
EndRoot ==
    /\ pc = "group"
    /\ todo = {}
    /\ si' = si + 1
    /\ pc' = "root"
    /\ UNCHANGED <<args, dirs, files, noperm, files0, run, series, todo, cur,
                   fi, movedSome, out, placed, target, reader, result>>

\* Lines 258-260: the file already is where it belongs.
SkipFile ==
    /\ pc = "file"
    /\ fi <= Len(group.Files)
    /\ dstFile = file
    /\ fi' = fi + 1
    /\ UNCHANGED <<args, dirs, files, noperm, files0, run, pc, si, series,
                   todo, cur, movedSome, out, placed, target, reader, result>>

\* Lines 261-292: the file is moved or copied, and in move mode the
\* directories it left are cleaned up.
PlaceFile ==
    /\ pc = "file"
    /\ fi <= Len(group.Files)
    /\ dstFile # file
    /\ ~MkdirAllCollides(files, dstDir)
    /\ LET made == MkdirAll(dirs, dstDir) IN
       IF mv
       THEN /\ ~moveFileFails(made, files, file, dstFile)
            /\ files' = moveFile(files, file, dstFile)
            /\ dirs' = Cleanup(made, files', noperm, file)
       ELSE /\ ~copyFileFails(made, files, file, dstFile)
            /\ files' = copyFile(files, file, dstFile)
            /\ dirs' = made
    /\ movedSome' = TRUE
    /\ placed' = Append(placed, <<file, dstFile>>)
    /\ fi' = fi + 1
    /\ UNCHANGED <<args, noperm, files0, run, pc, si, series, todo, cur, out,
                   target, reader, result>>

\* FatalMkdir with the error only logged: the file is skipped and the loop
\* goes on.
FatalMkdirContinues ==
    /\ pc = "file"
    /\ fi <= Len(group.Files)
    /\ dstFile # file
    /\ MkdirAllCollides(files, dstDir)
    /\ movedSome' = TRUE
    /\ fi' = fi + 1
    /\ UNCHANGED <<args, dirs, files, noperm, files0, run, pc, si, series,
                   todo, cur, out, placed, target, reader, result>>

\* Lines 266-268: os.MkdirAll fails (a component is a regular file, or the
\* system refuses after creating some of the directories): log.Fatalln.
FatalMkdir ==
    /\ pc = "file"
    /\ fi <= Len(group.Files)
    /\ dstFile # file
    /\ \/ /\ MkdirAllCollides(files, dstDir)
          /\ dirs' = dirs
       \/ /\ ~MkdirAllCollides(files, dstDir)
          /\ \E k \in 0..(Len(dstDir) - 1) :
                dirs' = IF k = 0 THEN dirs ELSE MkdirAll(dirs, SubSeq(dstDir, 1, k))
    /\ movedSome' = TRUE
    /\ pc' = "fatal"
    /\ UNCHANGED <<args, files, noperm, files0, run, si, series, todo, cur,
                   fi, out, placed, target, reader, result>>

\* Lines 276-278: the action fails (the destination is a directory, or the
\* system refuses): log.Fatalln. A copy that fails in io.Copy leaves a
\* truncated destination.
FatalAction ==
    /\ pc = "file"
    /\ fi <= Len(group.Files)
    /\ dstFile # file
    /\ ~MkdirAllCollides(files, dstDir)
    /\ dirs' = MkdirAll(dirs, dstDir)
    /\ \/ files' = files
       \/ /\ ~mv
          /\ ~copyFileFails(dirs', files, file, dstFile)
          /\ files' = With(files, dstFile, Truncated(files[file]))
    /\ movedSome' = TRUE
    /\ pc' = "fatal"
    /\ UNCHANGED <<args, noperm, files0, run, si, series, todo, cur, fi, out,
                   placed, target, reader, result>>

\* Lines 295-297: the series' files are done; print its directory if some
\* file was placed.
EndGroup ==
    /\ pc = "file"
    /\ fi > Len(group.Files)
    /\ out' = IF movedSome THEN Append(out, Clean(dstDir)) ELSE out
    /\ pc' = "group"
    /\ UNCHANGED <<args, dirs, files, noperm, files0, run, si, series, todo,
                   cur, fi, movedSome, placed, target, reader, result>>

\* The same command line is run a second time on the tree the first left.
Rerun ==
    /\ pc = "done"
    /\ run = 1
    /\ mv
    /\ run' = 2
    /\ pc' = "start"
    /\ files0' = files
    /\ out' = <<>>
    /\ series' = EmptyTable
    /\ todo' = {}
    /\ cur' = <<>>
    /\ fi' = 1
    /\ si' = 1
    /\ movedSome' = FALSE
    /\ placed' = <<>>
    /\ UNCHANGED <<args, dirs, files, noperm, target, reader, result>>

Next ==
    \/ Start
    \/ StartFails
    \/ SkipRoot
    \/ ScanRoot
    \/ Finish
    \/ NextGroup
    \/ EndRoot
    \/ SkipFile
    \/ PlaceFile
    \/ FatalMkdir
    \/ FatalAction
    \/ EndGroup
    \/ Rerun

-----------------------------------------------------------------------------
(* The trees and command lines the placement model starts from. *)

Absent == "<absent>"

\* The elements the parser found: tag -> value, a tag it did not find absent.
Elems(uid, pn, sd) ==
    LET v == [SeriesInstanceUID |-> uid, PatientName |-> pn, SeriesDescription |-> sd]
    IN [t \in {x \in DOMAIN v : v[x] # Absent} |-> v[t]]

\* A DICOM file: a zero preamble byte first, parsed elements as given.
Dicom(id, uid, pn, sd) ==
    [id |-> id, readable |-> TRUE, bytes |-> <<0>>, parses |-> TRUE,
     elems |-> Elems(uid, pn, sd)]

Ancestors(P) == UNION {{SubSeq(p, 1, k) : k \in 0..(Len(p) - 1)} : p \in P}

R == <<"r">>
S == <<"s">>
OUT == <<"out">>

ArgSets == {<<R>>, <<R, OUT>>, <<R, S, OUT>>, <<R, R>>}

PathsUnderR == {<<"r", "f">>, <<"r", "A", "g">>, <<"r", "B", "f">>,
                <<"r", "Doe", "CT", "f">>, <<"r", "Doe", "CT", "g">>,
                <<"r", "Doe">>}
PathsUnderS == {<<"s", "f">>, <<"s", "g">>}

PathsFor(a) == IF Len(a) = 3 THEN PathsUnderR \cup PathsUnderS ELSE PathsUnderR

Metas == {"S1", "S2"} \X {"Doe", "Roe", "..", Absent} \X {"CT"}

\* A set of paths that can be one tree: no file is another's directory.
TreeLike(P) == \A p \in P : p \notin Ancestors(P)

Init ==
    /\ args \in ArgSets
    /\ \E P \in SUBSET PathsFor(args) :
        /\ Cardinality(P) \in 1..MaxFiles
        /\ TreeLike(P)
        /\ \E m \in [P -> Metas] :
            files = [p \in P |-> Dicom(p, m[p][1], m[p][2], m[p][3])]
    /\ dirs = Ancestors(DOMAIN files)
    /\ noperm = {}
    /\ files0 = files
    /\ run = 1
    /\ pc = "start"
    /\ si = 1
    /\ series = EmptyTable
    /\ todo = {}
    /\ cur = <<>>
    /\ fi = 1
    /\ movedSome = FALSE
    /\ out = <<>>
    /\ placed = <<>>
    /\ target = <<>>
    /\ reader = <<>>
    /\ result = <<>>

Spec == Init /\ [][Next]_vars

-----------------------------------------------------------------------------
(* The classifier on its own: a file is drawn, isTextFile is applied. *)

\* Lines 48-59: os.Open, and the reader on the open file.
OpenFile ==
    /\ pc = "classify"
    /\ IF target.readable
       THEN /\ reader' = [pos |-> 1, i |-> 0]
            /\ pc' = "reading"
            /\ result' = result
       ELSE /\ result' = <<FALSE>>
            /\ pc' = "classified"
            /\ reader' = reader
    /\ UNCHANGED <<args, dirs, files, noperm, files0, run, si, series, todo,
                   cur, fi, movedSome, out, placed, target>>

\* Lines 60-74: one iteration of the loop, or its end.
ReadStep ==
    /\ pc = "reading"
    /\ LET s == RuneStep(target.bytes, reader.pos, reader.i) IN
       IF s.done
       THEN /\ result' = <<s.ret>>
            /\ pc' = "classified"
            /\ reader' = reader
       ELSE /\ reader' = [pos |-> s.pos, i |-> reader.i + 1]
            /\ UNCHANGED <<pc, result>>
    /\ UNCHANGED <<args, dirs, files, noperm, files0, run, si, series, todo,
                   cur, fi, movedSome, out, placed, target>>

\* n copies of the rune whose bytes are unit.
Repeat(unit, n) == [i \in 1..(n * Len(unit)) |-> unit[((i - 1) % Len(unit)) + 1]]

\* The bytes a drawn file ends with: control characters, the three the
\* classifier lets pass, printable ASCII, DEL, a lone continuation byte,
\* the second bytes of U+00A9 and U+00AD, two lead bytes, and 0xFF.
ByteSamples == {0, 9, 10, 13, 32, 65, 127, 128, 169, 173, 194, 195, 255}

\* A printable prefix: "A", or the two bytes of U+00E9.
PadUnits == {<<65>>, <<195, 169>>}
PadLens == {0, MaxRunes - 1, MaxRunes}

Tails == UNION {[1..n -> ByteSamples] : n \in 0..MaxTail}

InitClassify ==
    /\ \E rd \in BOOLEAN, unit \in PadUnits, n \in PadLens, tail \in Tails :
        target = [readable |-> rd, bytes |-> Repeat(unit, n) \o tail]
    /\ pc = "classify"
    /\ reader = <<>>
    /\ result = <<>>
    /\ args = <<R>>
    /\ dirs = {<<>>}
    /\ files = EmptyTable
    /\ noperm = {}
    /\ files0 = EmptyTable
    /\ run = 1
    /\ si = 1
    /\ series = EmptyTable
    /\ todo = {}
    /\ cur = <<>>
    /\ fi = 1
    /\ movedSome = FALSE
    /\ out = <<>>
    /\ placed = <<>>

NextClassify == OpenFile \/ ReadStep

SpecClassify == InitClassify /\ [][NextClassify]_vars

-----------------------------------------------------------------------------
(* The scan on its own: a tree is drawn, SplitSeries is applied to r. *)

Scan ==
    /\ pc = "scan"
    /\ result' = <<SplitSeries(dirs, files, noperm, R)>>
    /\ pc' = "scanned"
    /\ UNCHANGED <<args, dirs, files, noperm, files0, run, si, series, todo,
                   cur, fi, movedSome, out, placed, target, reader>>

ScanPaths == {<<"r", "g">>, <<"r", "A", "f">>, <<"r", "A", "g">>,
              <<"r", "B", "f">>, <<"r", "A", "B", "g">>}

\* The files of a drawn tree: DICOM files of two series with or without a
\* PatientName, one without a SeriesDescription, one with an empty and one
\* without a SeriesInstanceUID, a text file, an unreadable file, and a file
\* the parser rejects.
ScanKinds(id) ==
    {Dicom(id, u, p, "CT") : u \in {"S1", "S2"}, p \in {"Doe", "Roe", Absent}}
    \cup {Dicom(id, "S1", "Doe", Absent), Dicom(id, "", "Doe", "CT"),
          Dicom(id, Absent, "Doe", "CT"),
          [Dicom(id, "S1", "Doe", "CT") EXCEPT !.bytes = <<65>>],
          [Dicom(id, "S1", "Doe", "CT") EXCEPT !.readable = FALSE],
          [Dicom(id, "S1", "Doe", "CT") EXCEPT !.parses = FALSE]}

InitScan ==
    /\ \E P \in SUBSET ScanPaths :
        /\ Cardinality(P) \in 1..MaxScanFiles
        /\ files \in [P -> UNION {ScanKinds(p) : p \in P}]
        /\ \A p \in P : files[p].id = p
    /\ dirs = Ancestors(DOMAIN files)
    /\ noperm \in {{}, {<<"r", "A">>} \cap dirs}
    /\ pc = "scan"
    /\ result = <<>>
    /\ target = <<>>
    /\ reader = <<>>
    /\ args = <<R>>
    /\ files0 = files
    /\ run = 1
    /\ si = 1
    /\ series = EmptyTable
    /\ todo = {}
    /\ cur = <<>>
    /\ fi = 1
    /\ movedSome = FALSE
    /\ out = <<>>
    /\ placed = <<>>

SpecScan == InitScan /\ [][Scan]_vars

-----------------------------------------------------------------------------
(* C8: the classifier rule. *)

IsLead(b) == b >= 194 /\ b <= 223

\* The offsets of bytes at which a rune starts: every byte but a
\* continuation byte that follows a two-byte lead.
RuneStarts(bytes) ==
    {p \in 1..Len(bytes) : ~(p > 1 /\ IsCont(bytes[p]) /\ IsLead(bytes[p - 1]))}

\* A rune isTextFile does not accept.
Disqualifies(r) == ~IsPrint(r) /\ r \notin {9, 10, 13}

\* Whether one of the first MaxRunes decoded characters disqualifies.
HasDisqualifier(bytes) ==
    LET starts == RuneStarts(bytes) IN
    \E p \in starts :
        /\ Disqualifies(ReadRune(bytes, p)[1])
        /\ Cardinality({q \in starts : q <= p}) <= 128

\* C8: isTextFile returns false exactly when the file cannot be opened or one
\* of its first 128 decoded characters is non-printable and is not newline,
\* tab or carriage return, and true in every other case; 127 printable ASCII
\* characters are text, and a file whose first character is a non-printable
\* byte is not.
C8_ClassifierRule ==
    pc = "classified" =>
        /\ result[1] = (target.readable /\ ~HasDisqualifier(target.bytes))
        /\ (target.readable /\ target.bytes = Repeat(<<65>>, 127)) => result[1] = TRUE
        /\ (target.readable /\ target.bytes # <<>> /\ target.bytes[1] \in {0, 127})
                => result[1] = FALSE

\* A file of exactly 127 printable ASCII characters was classified as text.
C8_Witness ==
    /\ pc = "classified"
    /\ target.readable
    /\ target.bytes = Repeat(<<65>>, 127)
    /\ result = <<TRUE>>

-----------------------------------------------------------------------------
(* The scan, stated over the tree: which files a scan of r reaches, in which
   order, and which of them it takes. *)

Rank(n) == CHOOSE i \in 1..Len(NameOrder) : NameOrder[i] = n

\* q is met before p by the traversal: at the first component in which the
\* two paths differ, q's sorts first.
Before(q, p) ==
    \E k \in 1..Len(q) :
        /\ k <= Len(p)
        /\ SubSeq(q, 1, k - 1) = SubSeq(p, 1, k - 1)
        /\ q[k] # p[k]
        /\ Rank(q[k]) < Rank(p[k])

\* Every directory from r down to p's can be listed.
Visible(p) == \A k \in 1..(Len(p) - 1) : SubSeq(p, 1, k) \notin noperm

\* The file is read and parsed and names its series.
Parsed(p) ==
    LET f == files[p] IN
    /\ ~isTextFile(f)
    /\ f.readable
    /\ f.parses
    /\ "SeriesInstanceUID" \in DOMAIN f.elems
    /\ f.elems["SeriesInstanceUID"] # ""

Uid(p) == files[p].elems["SeriesInstanceUID"]
HasPatient(p) == "PatientName" \in DOMAIN files[p].elems
HasDescription(p) == "SeriesDescription" \in DOMAIN files[p].elems
Complete(p) == Parsed(p) /\ HasPatient(p) /\ HasDescription(p)

\* An entry listed before p in p's own directory (a file, or a subdirectory
\* with all below it) holds a visible file of p's series with both names.
SeriesKnownBefore(p) ==
    \E q \in DOMAIN files :
        /\ Complete(q) /\ Visible(q) /\ Uid(q) = Uid(p)
        /\ Len(q) >= Len(p)
        /\ SubSeq(q, 1, Len(p) - 1) = Dir(p)
        /\ Before(q, p)

Taken(p) == Parsed(p) /\ Visible(p) /\ (Complete(p) \/ SeriesKnownBefore(p))

InTable(table, p) ==
    \E u \in DOMAIN table : \E i \in 1..Len(table[u].Files) : table[u].Files[i] = p

scanned == result[1].series

-----------------------------------------------------------------------------
(* C2: missing metadata rejection. *)

\* C2 as stated: a file that yields a SeriesInstanceUID but no PatientName is
\* never a member of the Files of any SeriesGroup of the returned table,
\* whichever files of the series were discovered before it.
C2_NeverAdded ==
    pc = "scanned" /\ ~result[1].err =>
        \A p \in DOMAIN files :
            Parsed(p) /\ ~HasPatient(p) => ~InTable(scanned, p)

\* C2 amended: a file that yields a SeriesInstanceUID but no PatientName
\* never creates a SeriesGroup (it is never the first of a group's Files),
\* and it is a member of a group exactly when an entry listed before it in
\* its own directory had already put its series into that directory's table.
C2_NeverCreates ==
    pc = "scanned" /\ ~result[1].err =>
        /\ \A u \in DOMAIN scanned :
            /\ scanned[u].Files # <<>>
            /\ HasPatient(scanned[u].Files[1])
        /\ \A p \in DOMAIN files :
            Parsed(p) /\ ~HasPatient(p) =>
                (InTable(scanned, p) <=> Visible(p) /\ SeriesKnownBefore(p))

\* A file without a PatientName was scanned alone in its series and left out,
\* and another was appended to the series a file before it had created.
C2_Witness ==
    /\ pc = "scanned"
    /\ ~result[1].err
    /\ \E p, q \in DOMAIN files :
        /\ Parsed(p) /\ ~HasPatient(p) /\ InTable(scanned, p)
        /\ Parsed(q) /\ ~HasPatient(q) /\ ~InTable(scanned, q) /\ Visible(q)

-----------------------------------------------------------------------------
(* C5: merge correctness. *)

TakenOf(u) == {p \in DOMAIN files : Taken(p) /\ Uid(p) = u}

\* The files of series u the traversal meets, and the first of them.
MetOf(u) == {p \in DOMAIN files : Parsed(p) /\ Visible(p) /\ Uid(p) = u}
FirstMet(u) == CHOOSE p \in MetOf(u) : \A q \in MetOf(u) \ {p} : Before(p, q)

\* C5 as stated: the PatientName and SeriesDescription of a series' group
\* are those of the first file of the series encountered in traversal order.
C5_FirstEncountered ==
    pc = "scanned" /\ ~result[1].err =>
        \A u \in DOMAIN scanned :
            LET first == files[FirstMet(u)].elems IN
            /\ HasPatient(FirstMet(u)) => scanned[u].PatientName = first["PatientName"]
            /\ HasDescription(FirstMet(u)) =>
                    scanned[u].SeriesDescription = first["SeriesDescription"]

\* C5 amended: the SeriesGroup of a series holds exactly the files of the series the
\* scans of the directory and of its subdirectories took, each once and in
\* discovery order, and its PatientName and SeriesDescription are those of
\* the first of them, the first file of the series in traversal order that
\* the scan took; no later file or merged table overwrites them.
C5_MergeCorrect ==
    pc = "scanned" /\ ~result[1].err =>
        /\ DOMAIN scanned = {Uid(p) : p \in {q \in DOMAIN files : Taken(q)}}
        /\ \A u \in DOMAIN scanned :
            LET fs == scanned[u].Files IN
            /\ {fs[i] : i \in 1..Len(fs)} = TakenOf(u)
            /\ Len(fs) = Cardinality(TakenOf(u))
            /\ \A i, j \in 1..Len(fs) : i < j => Before(fs[i], fs[j])
            /\ scanned[u].PatientName = files[fs[1]].elems["PatientName"]
            /\ scanned[u].SeriesDescription = files[fs[1]].elems["SeriesDescription"]

\* Subdirectories A and B both hold a file of S1, with different
\* PatientNames; the group holds both files and has A's PatientName.
C5_Witness ==
    /\ pc = "scanned"
    /\ ~result[1].err
    /\ "S1" \in DOMAIN scanned
    /\ LET fs == scanned["S1"].Files IN
       /\ Len(fs) >= 2
       /\ fs[1][2] = "A"
       /\ fs[Len(fs)][2] = "B"
       /\ files[fs[1]].elems["PatientName"] # files[fs[Len(fs)]].elems["PatientName"]
       /\ scanned["S1"].PatientName = files[fs[1]].elems["PatientName"]

-----------------------------------------------------------------------------
(* The placement, stated over the run. *)

TableFiles(table) ==
    UNION {{table[u].Files[i] : i \in 1..Len(table[u].Files)} : u \in DOMAIN table}

Count(seq, x) == Cardinality({i \in 1..Len(seq) : seq[i] = x})

\* The directories a file was relocated into during this run.
Received == {Dir(placed[i][2]) : i \in 1..Len(placed)}

\* The file sits at destRoot/PatientName/SeriesDescription/<base name>.
SitsCanonical(g, p) ==
    p = Clean(dst) \o <<g.PatientName, g.SeriesDescription, Base(p)>>

\* Every PatientName of the tree is an ordinary name.
PlainNames ==
    \A p \in DOMAIN files0 :
        "PatientName" \in DOMAIN files0[p].elems =>
            files0[p].elems["PatientName"] \in {"Doe", "Roe"}

AllCanonical ==
    \A u \in DOMAIN series :
        \A i \in 1..Len(series[u].Files) : SitsCanonical(series[u], series[u].Files[i])

-----------------------------------------------------------------------------
(* C1: idempotence. *)

\* C1: in move mode, when every file of every SeriesGroup of the scanned
\* table already sits at destRoot/PatientName/SeriesDescription/<base name>,
\* no step of the placement moves or copies a file, creates or removes a
\* directory, prints a line or fails.
C1_Idempotent ==
    [][(mv /\ pc \in {"group", "file"} /\ AllCanonical) =>
            /\ dirs' = dirs
            /\ files' = files
            /\ out' = out
            /\ placed' = placed
            /\ pc' # "fatal"]_vars

\* An in-place run over a canonical tree of two files ended: nothing was
\* relocated and nothing printed.
C1_Witness ==
    /\ mv
    /\ run = 1
    /\ pc = "done"
    /\ AllCanonical
    /\ Cardinality(TableFiles(series)) = 2
    /\ files = files0
    /\ placed = <<>>
    /\ out = <<>>

-----------------------------------------------------------------------------
(* C3: output once per series directory. *)

\* Two source roots that each hold one file of series S1 (Doe, CT), of
\* different base names, copied to out.
TwoRootsOneSeries ==
    /\ args = <<R, S, OUT>>
    /\ \E p, q \in DOMAIN files0 :
        /\ DOMAIN files0 = {p, q}
        /\ p[1] = "r" /\ q[1] = "s" /\ Base(p) # Base(q)
        /\ files0[p].elems = Elems("S1", "Doe", "CT")
        /\ files0[q].elems = Elems("S1", "Doe", "CT")

\* C3 as stated, in the case it names: when two source roots that each hold
\* one file of the same series are copied to out and the run ends without a
\* fatal error, each directory that received a relocated file is printed as
\* exactly one line, and no other directory is printed.
C3_OneLinePerDirectory ==
    pc = "done" /\ TwoRootsOneSeries =>
        /\ \A d \in Received : Count(out, d) = 1
        /\ \A i \in 1..Len(out) : out[i] \in Received

-----------------------------------------------------------------------------
(* C4: copy mode leaves the originals untouched. *)

\* C4 as stated, for trees of ordinary PatientNames: in copy mode, while the
\* run has not failed, every file listed in a source root's SeriesTable still
\* exists at its original path with its original contents.
C4_OriginalsUntouched ==
    ~mv /\ PlainNames /\ pc \in {"root", "group", "file", "done"} =>
        \A p \in TableFiles(series) :
            p \in DOMAIN files /\ files[p] = files0[p]

-----------------------------------------------------------------------------
(* C6: cascading cleanup. *)

\* C6 without its last part: only a move removes directories; it removes the
\* directory the file left exactly when that is now empty, its parent
\* exactly when the first was removed and the parent is now empty, and no
\* other directory.
CleanupIsExact ==
    LET gone == dirs \ dirs' IN
    IF pc = "file" /\ placed' # placed
    THEN LET srcDir == Dir(file) IN
         /\ gone \subseteq {srcDir, Dir(srcDir)}
         /\ srcDir \in gone <=> ReadDir(dirs', files', srcDir) = <<>>
         /\ Dir(srcDir) \in gone <=>
                /\ srcDir \in gone
                /\ Dir(srcDir) # <<>>
                /\ ReadDir(dirs', files', Dir(srcDir)) = <<>>
    ELSE gone = {}

\* C6 as stated: in move mode the cleanup is exact, and the root directory
\* given on the command line is never removed.
C6_CascadingCleanup ==
    [][mv => CleanupIsExact /\ (pc # "start" => Clean(dst) \in dirs')]_vars

-----------------------------------------------------------------------------
(* C7: fatal stop. *)

\* C7: when the destination directory cannot be created the run ends in the
\* fatal state; the failing step, of os.MkdirAll or of the action, prints
\* nothing, removes no directory, relocates nothing, leaves every file other
\* than the destination as it was, and moves on to no other file, series or
\* source root; and no step follows it.
C7_FatalStop ==
    [][/\ pc # "fatal"
       /\ (pc = "file" /\ fi <= Len(group.Files) /\ dstFile # file
                /\ MkdirAllCollides(files, dstDir)) => pc' = "fatal"
       /\ pc' = "fatal" =>
            /\ out' = out
            /\ placed' = placed
            /\ dirs \subseteq dirs'
            /\ <<si', todo', cur', fi', series'>> = <<si, todo, cur, fi, series>>
            /\ pc # "file" => files' = files
            /\ pc = "file" =>
                /\ DOMAIN files' \subseteq DOMAIN files \cup {dstFile}
                /\ \A p \in DOMAIN files :
                    p # dstFile => p \in DOMAIN files' /\ files'[p] = files[p]]_vars

\* The run failed at the second file of a series whose first file had been
\* placed, with a source root still to come: the first file is where it was
\* put and nothing was printed.
C7_Witness ==
    /\ pc = "fatal"
    /\ Len(placed) = 1
    /\ fi = 2
    /\ si < Len(srcDirs)
    /\ placed[1][2] \in DOMAIN files
    /\ out = <<>>

-----------------------------------------------------------------------------
(* C9: no file is lost by a move. *)

\* C9 as stated, for trees of ordinary PatientNames: in move mode, after a
\* run that ends without a fatal error, the files placed went to distinct
\* destinations and there are as many files as before.
C9_NoFileLost ==
    mv /\ PlainNames /\ run = 1 /\ pc = "done" =>
        /\ \A i, j \in 1..Len(placed) : i # j => placed[i][2] # placed[j][2]
        /\ Cardinality(DOMAIN files) = Cardinality(DOMAIN files0)

-----------------------------------------------------------------------------
(* C10: an in-place run reaches a fixed point. *)

\* C10 as stated, for trees of ordinary PatientNames: a second in-place run,
\* on the tree the first left, relocates no file and prints no line.
C10_FixedPoint ==
    run = 2 /\ PlainNames => placed = <<>> /\ out = <<>>

====
